---- MODULE Spec2Model ----
(***************************************************************************)
(* Model of the muse headset driver: the DeviceStateManager state machine  *)
(* (device_state.rs), the MuseDevice facade (lib.rs) and the BleConnector  *)
(* with its notification pump tasks (ble.rs).                              *)
(***************************************************************************)
EXTENDS Integers, Sequences, FiniteSets, TLC

(***************************************************************************)
(* Bounds of the model.                                                    *)
(***************************************************************************)
\* data channels (mpsc::unbounded_channel) that may be created
MaxChannels == 2
\* notifications the transport may deliver
MaxNotifications == 2
\* the same two bounds for the specification of a single streaming session
SingleChannels == 1
SingleNotifications == 2
\* pending notifications per pump stream
MaxQueue == 1
\* distinct (name, uuid) inputs of DeviceStateManager::set_connected
NumDeviceInfos == 2
\* chunk cycles the peripheral begins while the pump is studied
MaxCycles == 2
\* distinct chunk contents a channel may send
MaxVariants == 2
\* notifications delivered to the pump when they come in any order
MaxDelivered == 4
\* notifications that come in any order before the peripheral keeps to its
\* cycles
MaxEarly == 3
\* length up to which every byte string is handed to the codec functions
MaxShort == 3

(***************************************************************************)
(* Program constants (ble.rs).                                             *)
(***************************************************************************)
EEG_CHUNK_SIZE == 12
PPG_CHUNK_SIZE == 6
EEG_CHANNEL_COUNT == 5
PPG_CHANNEL_COUNT == 3

CONTROL_UUID == "CONTROL"
eeg_uuids == <<"EEG_TP9", "EEG_AF7", "EEG_AF8", "EEG_TP10", "EEG_AUX">>
ppg_uuids == <<"PPG_AMBIENT", "PPG_INFRARED", "PPG_RED">>

Range(s) == {s[i] : i \in 1..Len(s)}

\* the characteristics of the peripheral's services, in the order
\* device.services() enumerates them (ascending characteristic id)
ServiceCharacteristics == <<CONTROL_UUID>> \o eeg_uuids \o ppg_uuids

\* the configuration commands of start_streaming
StartCommands == <<"h", "p50", "s", "d">>

VARIABLES
  \* DeviceStateManager
  connection_state, streaming_state,
  \* result of the latest DeviceStateManager call
  dsm_last,
  \* MuseDevice
  connector, connected, device_name, device_uuid, streaming,
  \* BleConnector (meaningful while connector = "Some")
  device, characteristics, ble_streaming, data_tx,
  \* the peripheral: link up, characteristics with notifications enabled
  link, subscribed,
  \* spawned pump tasks and created data channels
  pumps, channels,
  \* notifications delivered by the transport so far
  notified,
  \* when streaming was last started from a stopped gate: the value of
  \* notified, and the notifications whose chunks were in a slate
  restartMark, stale,
  \* the values the transport delivered to the pump under study, for each
  \* characteristic in the order of their delivery
  delivered,
  \* whether every data notification delivered so far was a full chunk in
  \* its place in its family's cycle
  inCycle,
  \* the bytes handed to a codec function and what the function returned
  arg, ret,
  \* the start_streaming call under way: where it stands and the frames it
  \* has written to the control characteristic
  starting,
  \* result of the latest MuseDevice call
  last

dsmVars == <<connection_state, streaming_state, dsm_last>>
museVars == <<connector, connected, device_name, device_uuid, streaming>>
bleVars == <<device, characteristics, ble_streaming, data_tx>>
peripheralVars == <<link, subscribed>>
taskVars == <<pumps, channels>>
vars == <<dsmVars, museVars, bleVars, peripheralVars, taskVars, notified,
          restartMark, stale, delivered, inCycle, arg, ret, starting, last>>
\* what a DeviceStateManager call leaves alone
notDsm == <<museVars, bleVars, peripheralVars, taskVars, notified,
            restartMark, stale, delivered, inCycle, arg, ret, starting, last>>
\* what a call that spawns and delivers nothing leaves alone
quiet == <<dsmVars, taskVars, notified, restartMark, stale, delivered, inCycle, arg, ret, starting>>

(***************************************************************************)
(* DeviceStateManager (device_state.rs)                                    *)
(***************************************************************************)
Disconnected == [tag |-> "Disconnected"]
Connected(info) == [tag |-> "Connected", info |-> info]

DeviceInfos == {[name |-> i, uuid |-> i] : i \in 1..NumDeviceInfos}

is_connected_dsm == connection_state.tag = "Connected"
is_streaming_dsm == streaming_state = "Streaming"
can_start_streaming == is_connected_dsm /\ ~is_streaming_dsm

\* what a call returned, and the state it was called in
DsmPre == [connection |-> connection_state, streaming |-> streaming_state]
DsmResult(op, ok) == [op |-> op, ok |-> ok, pre |-> DsmPre]

DsmNew ==
  /\ connection_state = Disconnected
  /\ streaming_state = "Stopped"
  /\ dsm_last = [op |-> "new", ok |-> TRUE,
                 pre |-> [connection |-> Disconnected, streaming |-> "Stopped"]]

set_connected ==
  \E info \in DeviceInfos :
    /\ connection_state' = Connected(info)
    /\ streaming_state' = streaming_state
    /\ dsm_last' = DsmResult("set_connected", TRUE)
    /\ UNCHANGED notDsm

\* a set_disconnected that clears the connection only
set_disconnected_KeepStreaming ==
  /\ connection_state' = Disconnected
  /\ streaming_state' = streaming_state
  /\ dsm_last' = DsmResult("set_disconnected", TRUE)
  /\ UNCHANGED notDsm

\* set_streaming_stopped() is called first, then the connection is cleared
set_disconnected ==
  /\ streaming_state' = "Stopped"
  /\ connection_state' = Disconnected
  /\ dsm_last' = DsmResult("set_disconnected", TRUE)
  /\ UNCHANGED notDsm

set_streaming_started ==
  /\ IF ~is_connected_dsm
       THEN /\ UNCHANGED <<connection_state, streaming_state>>
            /\ dsm_last' = DsmResult("set_streaming_started", FALSE)
       ELSE /\ streaming_state' = "Streaming"
            /\ connection_state' = connection_state
            /\ dsm_last' = DsmResult("set_streaming_started", TRUE)
  /\ UNCHANGED notDsm

set_streaming_stopped ==
  /\ streaming_state' = "Stopped"
  /\ connection_state' = connection_state
  /\ dsm_last' = DsmResult("set_streaming_stopped", TRUE)
  /\ UNCHANGED notDsm

NextDSM ==
  \/ set_connected
  \/ set_disconnected
  \/ set_streaming_started
  \/ set_streaming_stopped

(***************************************************************************)
(* MuseDevice (lib.rs) over BleConnector (ble.rs): the control path.  The  *)
(* connector mutex serialises the calls, so each call is one step.         *)
(***************************************************************************)
None == "None"
\* data_tx holds no sender (otherwise the number of the sender's channel)
NoSender == 0
PeripheralName == "MuseS"
PeripheralId == "id-1"
DataUuids == Range(eeg_uuids) \cup Range(ppg_uuids)

\* what a call returned: ok, or the reason of its Err
Result(op, ok, why) == [op |-> op, ok |-> ok, why |-> why]

\* ChannelChunks::new
ZeroChunks == [eeg_chunks |-> [c \in 1..EEG_CHANNEL_COUNT |->
                                 [i \in 1..EEG_CHUNK_SIZE |-> 0]],
               ppg_chunks |-> [c \in 1..PPG_CHANNEL_COUNT |->
                                 [i \in 1..PPG_CHUNK_SIZE |-> 0]]]

\* the task spawned by setup_notifications: its sender clone, its slate and
\* the notifications waiting in its stream
\* state is "running" while its notification stream is open, "closed" once
\* the stream has ended and "done" when the task has returned
\* a pump between two events: it holds no read guard of the gate
NoEvent == [held |-> FALSE, pending |-> <<>>]
NewPump(c) ==
  [tx |-> c, chunks |-> ZeroChunks, queue |-> <<>>, state |-> "running",
   event |-> NoEvent]

\* mpsc::unbounded_channel(): rx is "task" once streaming_task owns the
\* receiver and "dropped" when the receiver was dropped; buf holds the frames
\* sent and not yet received, pushed the frames streaming_task received and
\* pushed to its outlets
NewChannel(rx) == [rx |-> rx, buf |-> <<>>, pushed |-> <<>>]

\* the payloads the peripheral sends: a 2-byte header and 18 sample bytes
\* that name the notification (its number n) and the byte's place
FullPayload(n) == <<0, 0>> \o [i \in 1..18 |-> 20 * n + i]

\* the notification a sample value came from (0 for a zero sample), and the
\* one that triggered a frame (that of its last channel's sample)
Origin(type, v) ==
  IF v = 0 THEN 0
  ELSE IF type = "Eeg" THEN (v - 1) \div 20
  ELSE ((v \div 65536) - 1) \div 20
Trigger(frame) == Origin(frame.type, frame.sample[Len(frame.sample)])

\* the notifications whose chunks are in the slate of some pump
InSlates ==
  ({Origin("Eeg", pumps[p].chunks.eeg_chunks[c][1]) :
      p \in 1..Len(pumps), c \in 1..EEG_CHANNEL_COUNT}
   \cup {Origin("Ppg", pumps[p].chunks.ppg_chunks[c][1]) :
           p \in 1..Len(pumps), c \in 1..PPG_CHANNEL_COUNT})
  \ {0}

\* no codec function was called
NoCall == [op |-> "none"]
\* no start_streaming call is under way
NoStart == [pc |-> "idle", written |-> <<>>]
\* no notification was delivered
NothingDelivered == [uuid \in Range(ServiceCharacteristics) |-> <<>>]

\* BleConnector::new failed: no connector is stored
connect_NoAdapter ==
  /\ connector = None
  /\ last' = Result("connect", FALSE, "adapter")
  /\ UNCHANGED <<museVars, bleVars, peripheralVars>>
  /\ UNCHANGED quiet

\* BleConnector::connect returned Err before device.connect() (scan error,
\* timeout): the connector is kept, nothing else changes
connect_ScanFailed ==
  /\ connector' = "Some"
  /\ last' = Result("connect", FALSE, "transport")
  /\ UNCHANGED <<connected, device_name, device_uuid, streaming, bleVars,
                 peripheralVars>>
  /\ UNCHANGED quiet

\* device.connect() succeeded, discover_services or properties failed
connect_DiscoverFailed ==
  /\ connector' = "Some"
  /\ link' = TRUE
  /\ last' = Result("connect", FALSE, "transport")
  /\ UNCHANGED <<connected, device_name, device_uuid, streaming, bleVars,
                 subscribed>>
  /\ UNCHANGED quiet

connect_Ok ==
  /\ connector' = "Some"
  /\ link' = TRUE
  /\ device' = TRUE
  /\ connected' = TRUE
  /\ device_name' = PeripheralName
  /\ device_uuid' = PeripheralId
  /\ last' = Result("connect", TRUE, "")
  /\ UNCHANGED <<streaming, characteristics, ble_streaming, data_tx, subscribed>>
  /\ UNCHANGED quiet

MuseDevice_connect ==
  \/ connect_NoAdapter
  \/ connect_ScanFailed
  \/ connect_DiscoverFailed
  \/ connect_Ok

\* setup_notifications walks the service characteristics; these are the
\* map entries and subscriptions made when the walk stops after entry k
SetupInserted(k) == {ServiceCharacteristics[i] : i \in 1..k}
SetupSubscribed(k) == {ServiceCharacteristics[i] : i \in 1..k} \cap DataUuids
\* the places where a subscribe may fail: at the first and at the last
\* data characteristic of the walk
DataPoints == {i \in 1..Len(ServiceCharacteristics) :
                 ServiceCharacteristics[i] \in DataUuids}
SubscribePoints == {i \in DataPoints :
                      \/ \A j \in DataPoints : i <= j
                      \/ \A j \in DataPoints : i >= j}

start_NoConnector ==
  /\ connector = None
  /\ last' = Result("start_streaming", FALSE, "not connected")
  /\ UNCHANGED <<museVars, bleVars, peripheralVars, taskVars>>
  /\ UNCHANGED <<dsmVars, notified, restartMark, stale, delivered, inCycle, arg, ret, starting>>

\* a start_streaming that stores the sender before its is_connected check
start_NotConnected_StoresSender ==
  /\ connector = "Some" /\ ~device
  /\ Len(channels) < MaxChannels
  /\ data_tx' = Len(channels) + 1
  /\ channels' = Append(channels, NewChannel("dropped"))
  /\ last' = Result("start_streaming", FALSE, "not connected")
  /\ UNCHANGED <<museVars, device, characteristics, ble_streaming,
                 peripheralVars, pumps>>
  /\ UNCHANGED <<dsmVars, notified, restartMark, stale, delivered, inCycle, arg, ret, starting>>

\* BleConnector::start_streaming returns at its is_connected check; the
\* channel made for the call is dropped with both its ends
start_NotConnected ==
  /\ connector = "Some" /\ ~device
  /\ last' = Result("start_streaming", FALSE, "not connected")
  /\ UNCHANGED <<museVars, bleVars, peripheralVars, taskVars>>
  /\ UNCHANGED <<dsmVars, notified, restartMark, stale, delivered, inCycle, arg, ret, starting>>

\* subscribe fails at service characteristic k: the sender is stored, the
\* characteristics up to k are in the map, those before k are subscribed
start_SubscribeFailed(k, maxc) ==
  /\ connector = "Some" /\ device
  /\ Len(channels) < maxc
  /\ data_tx' = Len(channels) + 1
  /\ channels' = Append(channels, NewChannel("dropped"))
  /\ characteristics' = characteristics \cup SetupInserted(k)
  /\ subscribed' = subscribed \cup SetupSubscribed(k - 1)
  /\ last' = Result("start_streaming", FALSE, "transport")
  /\ UNCHANGED <<museVars, device, ble_streaming, link, pumps>>
  /\ UNCHANGED <<dsmVars, notified, restartMark, stale, delivered, inCycle, arg, ret, starting>>

\* every subscribe succeeded and the pump is spawned; the write of
\* configuration command j fails
start_CommandFailed(j, maxc) ==
  /\ connector = "Some" /\ device
  /\ Len(channels) < maxc
  /\ data_tx' = Len(channels) + 1
  /\ channels' = Append(channels, NewChannel("dropped"))
  /\ characteristics' =
       characteristics \cup SetupInserted(Len(ServiceCharacteristics))
  /\ subscribed' = subscribed \cup SetupSubscribed(Len(ServiceCharacteristics))
  /\ pumps' = Append(pumps, NewPump(Len(channels) + 1))
  /\ last' = Result("start_streaming", FALSE, "transport")
  /\ UNCHANGED <<museVars, device, ble_streaming, link>>
  /\ UNCHANGED <<dsmVars, notified, restartMark, stale, delivered, inCycle, arg, ret, starting>>

start_Ok(maxc) ==
  /\ connector = "Some" /\ device
  /\ Len(channels) < maxc
  /\ data_tx' = Len(channels) + 1
  /\ channels' = Append(channels, NewChannel("task"))
  /\ characteristics' =
       characteristics \cup SetupInserted(Len(ServiceCharacteristics))
  /\ subscribed' = subscribed \cup SetupSubscribed(Len(ServiceCharacteristics))
  /\ pumps' = Append(pumps, NewPump(Len(channels) + 1))
  /\ ble_streaming' = TRUE
  /\ streaming' = TRUE
  /\ last' = Result("start_streaming", TRUE, "")
  /\ UNCHANGED <<connector, connected, device_name, device_uuid, device, link>>
  /\ restartMark' = IF ble_streaming THEN restartMark ELSE notified
  /\ stale' = IF ble_streaming THEN stale ELSE InSlates
  /\ UNCHANGED <<dsmVars, notified, delivered, inCycle, arg, ret, starting>>

\* maxc bounds the channels the calls may create
MuseDevice_start_streaming(maxc) ==
  \/ start_NoConnector
  \/ start_NotConnected
  \/ \E k \in SubscribePoints : start_SubscribeFailed(k, maxc)
  \/ \E j \in 1..Len(StartCommands) : start_CommandFailed(j, maxc)
  \/ start_Ok(maxc)

\* send_control_command's own checks: a device and a stored control
\* characteristic
CanSendControl == device /\ CONTROL_UUID \in characteristics

\* what stays subscribed after stop_streaming's unsubscribe loop over the
\* stored data characteristics; unsubscribe errors are ignored
AfterUnsubscribe(ok) ==
  IF ok THEN subscribed \ (characteristics \cap DataUuids) ELSE subscribed

stop_NoConnector ==
  /\ connector = None
  /\ streaming' = FALSE
  /\ last' = Result("stop_streaming", TRUE, "")
  /\ UNCHANGED <<connector, connected, device_name, device_uuid, bleVars,
                 peripheralVars>>
  /\ UNCHANGED quiet

\* send_control_command("h") returns Err before any write
stop_CannotSend ==
  /\ connector = "Some" /\ ~CanSendControl
  /\ last' = Result("stop_streaming", FALSE,
                    IF device THEN "no control characteristic" ELSE "not connected")
  /\ UNCHANGED <<museVars, bleVars, peripheralVars>>
  /\ UNCHANGED quiet

\* the write of the halt command fails
stop_WriteFailed ==
  /\ connector = "Some" /\ CanSendControl
  /\ last' = Result("stop_streaming", FALSE, "transport")
  /\ UNCHANGED <<museVars, bleVars, peripheralVars>>
  /\ UNCHANGED quiet

stop_Ok(unsubOk) ==
  /\ connector = "Some" /\ CanSendControl
  /\ ble_streaming' = FALSE
  /\ subscribed' = AfterUnsubscribe(unsubOk)
  /\ data_tx' = NoSender
  /\ streaming' = FALSE
  /\ last' = Result("stop_streaming", TRUE, "")
  /\ UNCHANGED <<connector, connected, device_name, device_uuid, device,
                 characteristics, link>>
  /\ UNCHANGED quiet

MuseDevice_stop_streaming ==
  \/ stop_NoConnector
  \/ stop_CannotSend
  \/ stop_WriteFailed
  \/ \E unsubOk \in BOOLEAN : stop_Ok(unsubOk)

disconnect_NoConnector ==
  /\ connector = None
  /\ connected' = FALSE
  /\ device_name' = None
  /\ device_uuid' = None
  /\ last' = Result("disconnect", TRUE, "")
  /\ UNCHANGED <<connector, streaming, bleVars, peripheralVars>>
  /\ UNCHANGED quiet

\* BleConnector::disconnect: its stop_streaming returns Err at
\* send_control_command
disconnect_CannotSend ==
  /\ connector = "Some" /\ ~CanSendControl
  /\ last' = Result("disconnect", FALSE,
                    IF device THEN "no control characteristic" ELSE "not connected")
  /\ UNCHANGED <<museVars, bleVars, peripheralVars>>
  /\ UNCHANGED quiet

disconnect_WriteFailed ==
  /\ connector = "Some" /\ CanSendControl
  /\ last' = Result("disconnect", FALSE, "transport")
  /\ UNCHANGED <<museVars, bleVars, peripheralVars>>
  /\ UNCHANGED quiet

\* stop_streaming succeeded, device.disconnect() fails: the device is kept
disconnect_LinkFailed(unsubOk) ==
  /\ connector = "Some" /\ CanSendControl
  /\ ble_streaming' = FALSE
  /\ subscribed' = AfterUnsubscribe(unsubOk)
  /\ data_tx' = NoSender
  /\ last' = Result("disconnect", FALSE, "transport")
  /\ UNCHANGED <<museVars, device, characteristics, link>>
  /\ UNCHANGED quiet

disconnect_Ok ==
  /\ connector = "Some" /\ CanSendControl
  /\ ble_streaming' = FALSE
  /\ data_tx' = NoSender
  /\ device' = FALSE
  /\ link' = FALSE
  /\ subscribed' = {}
  /\ connected' = FALSE
  /\ device_name' = None
  /\ device_uuid' = None
  /\ last' = Result("disconnect", TRUE, "")
  /\ UNCHANGED <<connector, streaming, characteristics>>
  /\ UNCHANGED quiet

MuseDevice_disconnect ==
  \/ disconnect_NoConnector
  \/ disconnect_CannotSend
  \/ disconnect_WriteFailed
  \/ \E unsubOk \in BOOLEAN : disconnect_LinkFailed(unsubOk)
  \/ disconnect_Ok

\* the getters of the facade
is_streaming == streaming
is_connected == connected

NextControl(maxc) ==
  \/ MuseDevice_connect
  \/ MuseDevice_start_streaming(maxc)
  \/ MuseDevice_stop_streaming
  \/ MuseDevice_disconnect

(***************************************************************************)
(* Notifications and the pump task of setup_notifications (ble.rs).        *)
(***************************************************************************)
Ok(v) == [ok |-> TRUE, value |-> v]
Err == [ok |-> FALSE]

\* an EEG decoder that keeps the header
parse_eeg_data_KeepsHeader(data) ==
  IF Len(data) < 2 THEN Err ELSE Ok(data)

parse_eeg_data(data) ==
  IF Len(data) < 2 THEN Err ELSE Ok(SubSeq(data, 3, Len(data)))

\* a decoder that pads an incomplete last group with zero bytes
decode_unsigned_24_bit_data_PadsTail(samples) ==
  LET padded == samples \o [i \in 1..((3 - (Len(samples) % 3)) % 3) |-> 0]
  IN Ok([g \in 1..(Len(padded) \div 3) |->
           padded[3 * g - 2] * 65536 + padded[3 * g - 1] * 256 + padded[3 * g]])

decode_unsigned_24_bit_data(samples) ==
  Ok([g \in 1..(Len(samples) \div 3) |->
        samples[3 * g - 2] * 65536 + samples[3 * g - 1] * 256 + samples[3 * g]])

\* a PPG decoder that takes a payload of any length
parse_ppg_data_AnyLength(data) ==
  decode_unsigned_24_bit_data(SubSeq(data, 3, Len(data)))

parse_ppg_data(data) ==
  IF Len(data) < 2 THEN Err
  ELSE decode_unsigned_24_bit_data(SubSeq(data, 3, Len(data)))

\* a position counted from 1
Position_OneBased(uuids, u) == CHOOSE i \in 1..Len(uuids) : uuids[i] = u

\* uuids.iter().position(..): the 0-based index of u in uuids
Position(uuids, u) == (CHOOSE i \in 1..Len(uuids) : uuids[i] = u) - 1

\* an emission that stops after the first half of the samples
Frames_HalfBatch(type, slots, size) ==
  [sample_idx \in 1..(size \div 2) |->
     [type |-> type, sample |-> [c \in 1..Len(slots) |-> slots[c][sample_idx]]]]

\* the frames of one emission: frame sample_idx holds that sample of every
\* channel, in channel order
Frames(type, slots, size) ==
  [sample_idx \in 1..size |->
     [type |-> type, sample |-> [c \in 1..Len(slots) |-> slots[c][sample_idx]]]]

\* a store that copies a short chunk over the head of the slot
StoreChunk_ShortToo(slots, channel_idx, values, size) ==
  [slots EXCEPT ![channel_idx + 1] =
     [i \in 1..size |-> IF i <= Len(values) THEN values[i] ELSE @[i]]]

\* "Store chunk data for this channel": copy_from_slice of the first size
\* values, only when there are that many
StoreChunk(slots, channel_idx, values, size) ==
  IF Len(values) >= size
    THEN [slots EXCEPT ![channel_idx + 1] = SubSeq(values, 1, size)]
    ELSE slots

\* an EEG branch that emits without reset_eeg
HandleEeg_NoReset(chunks, channel_idx, channel_values) ==
  LET stored == [chunks.eeg_chunks EXCEPT ![channel_idx + 1] =
                   SubSeq(channel_values, 1, EEG_CHUNK_SIZE)]
  IN [chunks |-> [chunks EXCEPT !.eeg_chunks = stored],
      frames |-> IF channel_idx = 4
                   THEN Frames("Eeg", stored, EEG_CHUNK_SIZE) ELSE <<>>]

\* the EEG branch of the pump loop, for a successfully decoded chunk
HandleEeg(chunks, channel_idx, channel_values) ==
  LET stored == StoreChunk(chunks.eeg_chunks, channel_idx, channel_values,
                           EEG_CHUNK_SIZE)
  IN IF channel_idx = 4
       THEN [chunks |-> [chunks EXCEPT !.eeg_chunks = ZeroChunks.eeg_chunks],
             frames |-> Frames("Eeg", stored, EEG_CHUNK_SIZE)]
       ELSE [chunks |-> [chunks EXCEPT !.eeg_chunks = stored], frames |-> <<>>]

\* a PPG branch that adds each chunk to its slot and never zeroes the slate
HandlePpg_Accumulate(chunks, channel_idx, decoded_values) ==
  LET stored == [chunks.ppg_chunks EXCEPT ![channel_idx + 1] =
                   [i \in 1..PPG_CHUNK_SIZE |-> @[i] + decoded_values[i]]]
  IN [chunks |-> [chunks EXCEPT !.ppg_chunks = stored],
      frames |-> IF channel_idx = 2
                   THEN Frames("Ppg", stored, PPG_CHUNK_SIZE) ELSE <<>>]

\* the PPG branch of the pump loop, for a successfully decoded chunk
HandlePpg(chunks, channel_idx, decoded_values) ==
  LET stored == StoreChunk(chunks.ppg_chunks, channel_idx, decoded_values,
                           PPG_CHUNK_SIZE)
  IN IF channel_idx = 2
       THEN [chunks |-> [chunks EXCEPT !.ppg_chunks = ZeroChunks.ppg_chunks],
             frames |-> Frames("Ppg", stored, PPG_CHUNK_SIZE)]
       ELSE [chunks |-> [chunks EXCEPT !.ppg_chunks = stored], frames |-> <<>>]

\* a skipped event that wipes the slate
Unchanged_Wiped(chunks) == [chunks |-> ZeroChunks, frames |-> <<>>]

\* an event that is skipped: the slate stays, nothing is emitted
Unchanged(chunks) == [chunks |-> chunks, frames |-> <<>>]

\* a pump loop body that takes an identity of neither family for the last
\* EEG channel
HandleNotification_UnmappedAsAux(chunks, notification) ==
  LET char_uuid == notification.uuid
      data == notification.value
  IN IF char_uuid \in Range(ppg_uuids)
       THEN IF parse_ppg_data(data).ok
              THEN HandlePpg(chunks, Position(ppg_uuids, char_uuid),
                             parse_ppg_data(data).value)
              ELSE Unchanged(chunks)
     ELSE IF parse_eeg_data(data).ok
       THEN HandleEeg(chunks,
                      IF char_uuid \in Range(eeg_uuids)
                        THEN Position(eeg_uuids, char_uuid) ELSE 4,
                      parse_eeg_data(data).value)
       ELSE Unchanged(chunks)

\* the body of the pump loop under a true gate
HandleNotification(chunks, notification) ==
  LET char_uuid == notification.uuid
      data == notification.value
  IN IF char_uuid \in Range(eeg_uuids)
       THEN IF parse_eeg_data(data).ok
              THEN HandleEeg(chunks, Position(eeg_uuids, char_uuid),
                             parse_eeg_data(data).value)
              ELSE Unchanged(chunks)
     ELSE IF char_uuid \in Range(ppg_uuids)
       THEN IF parse_ppg_data(data).ok
              THEN HandlePpg(chunks, Position(ppg_uuids, char_uuid),
                             parse_ppg_data(data).value)
              ELSE Unchanged(chunks)
     ELSE Unchanged(chunks)

\* a pump loop without the gate test
PumpIgnoresGate(gate, chunks, notification) ==
  HandleNotification(chunks, notification)

\* one iteration of the pump loop: the gate is read, and only under a true
\* gate is the notification looked at
PumpIteration(gate, chunks, notification) ==
  IF gate THEN HandleNotification(chunks, notification) ELSE Unchanged(chunks)

\* a channel that hands the newest frames to its receiver first
Send_NewestFirst(chans, tx, frames) ==
  IF chans[tx].rx = "dropped" THEN chans
  ELSE [chans EXCEPT ![tx].buf = frames \o @]

\* tx.send: an unbounded channel takes the frame unless its receiver is
\* gone; the pump ignores the error
Send(chans, tx, frames) ==
  IF chans[tx].rx = "dropped" THEN chans
  ELSE [chans EXCEPT ![tx].buf = @ \o frames]

Pump(p) ==
  /\ pumps[p].queue # <<>>
  /\ LET out == PumpIteration(ble_streaming, pumps[p].chunks,
                              Head(pumps[p].queue))
     IN /\ pumps' = [pumps EXCEPT ![p].queue = Tail(@),
                                  ![p].chunks = out.chunks]
        /\ channels' = Send(channels, pumps[p].tx, out.frames)
  /\ UNCHANGED <<dsmVars, museVars, bleVars, peripheralVars, notified,
                 restartMark, stale, delivered, inCycle, arg, ret, starting, last>>

Payloads(n) == {FullPayload(n)}
\* the identities notified: a non-last and the last channel of each family
NotifiedUuids == {"EEG_TP9", "EEG_AUX", "PPG_INFRARED", "PPG_RED"}

\* the transport delivers a notification to the stream of every pump; maxn
\* bounds the notifications delivered
Notify(maxn) ==
  /\ link
  /\ pumps # <<>>
  /\ notified < maxn
  /\ \A p \in 1..Len(pumps) : Len(pumps[p].queue) < MaxQueue
  /\ \E uuid \in NotifiedUuids :
       \E value \in Payloads(notified + 1) :
         pumps' = [p \in 1..Len(pumps) |->
                     [pumps[p] EXCEPT !.queue =
                        Append(@, [uuid |-> uuid, value |-> value])]]
  /\ notified' = notified + 1
  /\ UNCHANGED <<dsmVars, museVars, bleVars, peripheralVars, channels,
                 restartMark, stale, delivered, inCycle, arg, ret, starting, last>>

NextStream(maxn) ==
  \/ Notify(maxn)
  \/ \E p \in 1..Len(pumps) : Pump(p)

(***************************************************************************)
(* The pump under study: one streaming session whose pump receives the     *)
(* chunks of the peripheral (ble.rs, pump loop).                           *)
(***************************************************************************)
\* the family of a data characteristic and its 0-based place in it
FamilyOf(uuid) == IF uuid \in Range(eeg_uuids) THEN eeg_uuids ELSE ppg_uuids
FamilyIndex(uuid) ==
  IF uuid \in DataUuids THEN Position(FamilyOf(uuid), uuid) ELSE 0
LastOf(family) == family[Len(family)]

\* a 20-byte notification value: a 2-byte header and 18 bytes that name the
\* channel's place in its family, the content variant and the byte's place
ChunkPayload(uuid, v) ==
  LET first == 1 + 13 * (MaxVariants * FamilyIndex(uuid) + (v - 1))
  IN <<0, 0>> \o [i \in 1..18 |-> first + ((i - 1) % 13)]

\* how many notifications of uuid were delivered
Count(uuid) == Len(delivered[uuid])

\* the state after connect() and start_streaming() returned Ok
Streaming ==
  /\ DsmNew
  /\ connector = "Some"
  /\ connected = TRUE
  /\ device_name = PeripheralName
  /\ device_uuid = PeripheralId
  /\ streaming = TRUE
  /\ device = TRUE
  /\ characteristics = SetupInserted(Len(ServiceCharacteristics))
  /\ ble_streaming = TRUE
  /\ data_tx = 1
  /\ link = TRUE
  /\ subscribed = SetupSubscribed(Len(ServiceCharacteristics))
  /\ pumps = <<NewPump(1)>>
  /\ channels = <<NewChannel("task")>>
  /\ notified = 0
  /\ restartMark = 0
  /\ stale = {}
  /\ delivered = NothingDelivered
  /\ inCycle = TRUE
  /\ last = Result("start_streaming", TRUE, "")
InitStreaming ==
  Streaming /\ arg = <<>> /\ ret = NoCall /\ starting = NoStart

\* cycles of a family completed and begun by the peripheral, when it sends
\* cycle by cycle and the family's last channel closes each cycle
CyclesDone(family) == Count(LastOf(family))
CycleOpen(family) ==
  \E c \in 1..Len(family) : Count(family[c]) = CyclesDone(family) + 1
CyclesBegun ==
  CyclesDone(eeg_uuids) + CyclesDone(ppg_uuids)
    + (IF CycleOpen(eeg_uuids) THEN 1 ELSE 0)
    + (IF CycleOpen(ppg_uuids) THEN 1 ELSE 0)
\* the content variant of the family's open cycle
OpenVariant(family) ==
  CHOOSE v \in 1..MaxVariants :
    \E c \in 1..Len(family) :
      /\ Count(family[c]) = CyclesDone(family) + 1
      /\ delivered[family[c]][Count(family[c])] = ChunkPayload(family[c], v)

\* uuid is the channel whose chunk comes next in its family's cycle: the
\* last channel after every other channel of the cycle, another channel
\* once per cycle
InPlace(uuid) ==
  LET family == FamilyOf(uuid)
  IN IF uuid = LastOf(family)
       THEN \A c \in 1..(Len(family) - 1) :
              Count(family[c]) = CyclesDone(family) + 1
       ELSE Count(uuid) = CyclesDone(family)
\* the transport hands a notification to the stream of every pump
Deliver(notification) ==
  /\ link
  /\ pumps # <<>>
  /\ \A p \in 1..Len(pumps) : Len(pumps[p].queue) < MaxQueue
  /\ pumps' = [p \in 1..Len(pumps) |->
                 [pumps[p] EXCEPT !.queue = Append(@, notification)]]
  /\ delivered' = [delivered EXCEPT ![notification.uuid] =
                                     Append(@, notification.value)]
  /\ inCycle' = (inCycle /\ (notification.uuid \in DataUuids
                               => /\ InPlace(notification.uuid)
                                  /\ Len(notification.value) = 20))
  /\ notified' = notified + 1
  /\ UNCHANGED <<dsmVars, museVars, bleVars, peripheralVars, channels,
                 restartMark, stale, arg, ret, starting, last>>

\* the peripheral sends the next chunk of a cycle: every channel once per
\* cycle, the last channel of the family last, all chunks of a cycle of the
\* same variant
DeliverInCycle ==
  \E uuid \in DataUuids, v \in 1..MaxVariants :
    LET family == FamilyOf(uuid)
    IN /\ inCycle
       /\ InPlace(uuid)
       /\ IF CycleOpen(family) THEN v = OpenVariant(family)
                               ELSE CyclesBegun < MaxCycles
       /\ Deliver([uuid |-> uuid, value |-> ChunkPayload(uuid, v)])

\* the peripheral sends the next chunk of a cycle, consecutive chunks of a
\* channel differing in content
DeliverInTurn ==
  \E uuid \in DataUuids :
    /\ inCycle
    /\ InPlace(uuid)
    /\ CycleOpen(FamilyOf(uuid)) \/ CyclesBegun < MaxCycles
    /\ Deliver([uuid |-> uuid,
                value |-> ChunkPayload(uuid, (Count(uuid) % MaxVariants) + 1)])

\* a pump task runs one iteration of its loop
PumpStep == \E p \in 1..Len(pumps) : Pump(p)

\* payloads shorter than the 2-byte header
ShortPayloads == {<<>>, <<7>>}
\* the characteristics that notify in any order: the PPG family, the last
\* EEG channel and the control characteristic
FreeUuids == Range(ppg_uuids) \cup {LastOf(eeg_uuids), CONTROL_UUID}

\* the transport delivers any notification: each characteristic's own
\* notifications in their order (consecutive chunks of a characteristic
\* differ in content), the characteristics in any order
DeliverAny(maxn) ==
  /\ notified < maxn
  /\ \E uuid \in FreeUuids :
       \E value \in {ChunkPayload(uuid, (Count(uuid) % MaxVariants) + 1)}
                      \cup ShortPayloads :
         Deliver([uuid |-> uuid, value |-> value])

\* the transport delivers a full chunk of any data characteristic, in its
\* place or not
DeliverChunk(maxn) ==
  /\ notified < maxn
  /\ \E uuid \in FreeUuids \cap DataUuids :
       Deliver([uuid |-> uuid,
                value |-> ChunkPayload(uuid, (Count(uuid) % MaxVariants) + 1)])

\* the lengths of the notifications cut short: a bare header, one that
\* decodes to 11 EEG bytes or 3 PPG samples, one that decodes to 17 EEG
\* bytes or 5 PPG samples
CutLengths == {2, 13, 19}
\* the transport delivers the head of a chunk of any data characteristic
DeliverCut(maxn) ==
  /\ notified < maxn
  /\ \E uuid \in FreeUuids \cap DataUuids, len \in CutLengths :
       Deliver([uuid |-> uuid,
                value |-> SubSeq(ChunkPayload(uuid, (Count(uuid) % MaxVariants) + 1),
                                 1, len)])

\* the channels that trigger a batch and one that does not
BatchUuids == {LastOf(eeg_uuids), LastOf(ppg_uuids), ppg_uuids[2]}
\* the transport delivers, for one of these channels, a whole chunk, a chunk
\* cut short that decodes, or a value that does not decode
DeliverTrigger(maxn) ==
  /\ notified < maxn
  /\ \E uuid \in BatchUuids :
       LET whole == ChunkPayload(uuid, (Count(uuid) % MaxVariants) + 1)
       IN \E value \in {whole, SubSeq(whole, 1, 13), <<7>>} :
            Deliver([uuid |-> uuid, value |-> value])

\* streaming_task returns before its receive loop (an outlet could not be
\* created), having received nothing: the receiver is dropped, and what the
\* channel held with it
SinkExit ==
  \E c \in 1..Len(channels) :
    /\ channels[c].rx = "task"
    /\ channels[c].pushed = <<>>
    /\ channels' = [channels EXCEPT ![c].rx = "dropped", ![c].buf = <<>>]
    /\ UNCHANGED <<dsmVars, museVars, bleVars, peripheralVars, pumps, notified,
                   restartMark, stale, delivered, inCycle, arg, ret, starting, last>>

\* a pump that sends what its slate holds when its stream has ended
AfterLoop_Flush(chunks) ==
  Frames("Eeg", chunks.eeg_chunks, EEG_CHUNK_SIZE)
    \o Frames("Ppg", chunks.ppg_chunks, PPG_CHUNK_SIZE)

\* the frames the pump sends after its loop: the task returns at once
AfterLoop(chunks) == <<>>

\* the transport ends the notification stream of pump p after the link went
\* down
StreamClose(p) ==
  /\ ~link
  /\ pumps[p].state = "running"
  /\ pumps' = [pumps EXCEPT ![p].state = "closed"]
  /\ UNCHANGED <<dsmVars, museVars, bleVars, peripheralVars, channels,
                 notified, restartMark, stale, delivered, inCycle, arg, ret, starting,
                 last>>

\* notifications.next() returns None: the loop and the task end, the
\* sender clone and the slate are dropped
PumpExit(p) ==
  /\ pumps[p].state = "closed"
  /\ pumps[p].queue = <<>>
  /\ pumps' = [pumps EXCEPT ![p].state = "done"]
  /\ channels' = Send(channels, pumps[p].tx, AfterLoop(pumps[p].chunks))
  /\ UNCHANGED <<dsmVars, museVars, bleVars, peripheralVars, notified,
                 restartMark, stale, delivered, inCycle, arg, ret, starting, last>>

\* the senders of channel c that are alive: the one BleConnector stores and
\* the clones of the pump tasks that have not returned
HasSender(c) ==
  \/ data_tx = c
  \/ \E p \in 1..Len(pumps) : pumps[p].tx = c /\ pumps[p].state # "done"

\* data_rx.recv() returns None, every sender being dropped and nothing
\* waiting: streaming_task leaves its loop and returns
SinkEnd(c) ==
  /\ channels[c].rx = "task"
  /\ channels[c].buf = <<>>
  /\ ~HasSender(c)
  /\ channels' = [channels EXCEPT ![c].rx = "done"]
  /\ UNCHANGED <<dsmVars, museVars, bleVars, peripheralVars, pumps, notified,
                 restartMark, stale, delivered, inCycle, arg, ret, starting, last>>

\* streaming_task receives the next frame and pushes it to the outlet of
\* its family; the result of the push is ignored
SinkRecv ==
  \E c \in 1..Len(channels) :
    /\ channels[c].rx = "task"
    /\ channels[c].buf # <<>>
    /\ channels' = [channels EXCEPT ![c].buf = Tail(@),
                                    ![c].pushed = Append(@, Head(channels[c].buf))]
    /\ UNCHANGED <<dsmVars, museVars, bleVars, peripheralVars, pumps, notified,
                   restartMark, stale, delivered, inCycle, arg, ret, starting, last>>

(***************************************************************************)
(* The codec functions called on their own (ble.rs).                       *)
(***************************************************************************)
\* a control frame whose first byte is the length of the whole buffer
ControlBuffer_WholeLength(cmd) ==
  LET buffer == <<88>> \o cmd \o <<10>>
  IN [buffer EXCEPT ![1] = Len(buffer) % 256]

\* the buffer send_control_command writes: 'X', the command and '\n', the
\* first byte then overwritten with (buffer.len() - 1) as u8
ControlBuffer(cmd) ==
  LET buffer == <<88>> \o cmd \o <<10>>
  IN [buffer EXCEPT ![1] = (Len(buffer) - 1) % 256]

\* the bytes the inputs are made of: 'h', 'p' and the largest byte
CodecBytes == {104, 112, 255}
\* the lengths of the long inputs: an EEG payload, a full notification and
\* the commands around the limit of the length byte
LongLengths == {14, 20, 253, 254, 255, 256}
\* n bytes that differ from place to place
Fill(n, b) == [i \in 1..n |-> (b + i) % 256]
CodecInputs ==
  UNION {[1..n -> CodecBytes] : n \in 0..MaxShort}
    \cup {Fill(n, b) : n \in LongLengths, b \in CodecBytes}

Returned(op, result) ==
  /\ ret' = [op |-> op, result |-> result]
  /\ UNCHANGED <<dsmVars, museVars, bleVars, peripheralVars, taskVars,
                 notified, restartMark, stale, delivered, inCycle, arg, starting,
                 last>>

\* send_control_command(arg) with a device and a control characteristic,
\* the write succeeding: what was written
send_control_command ==
  /\ CanSendControl
  /\ Returned("send_control_command", Ok(ControlBuffer(arg)))
call_parse_eeg_data == Returned("parse_eeg_data", parse_eeg_data(arg))
call_parse_ppg_data == Returned("parse_ppg_data", parse_ppg_data(arg))

(***************************************************************************)
(* start_streaming step by step (lib.rs, ble.rs): the notifications that   *)
(* arrive and the pump iterations that run while the call is under way.    *)
(***************************************************************************)
\* command.as_bytes() of the configuration commands
CommandBytes ==
  [h |-> <<104>>, p50 |-> <<112, 53, 48>>, s |-> <<115>>, d |-> <<100>>]

\* the call passed its checks: the channel is made, its receiver held by
\* the caller, its sender stored
start_Begin(maxc) ==
  /\ starting.pc = "idle"
  /\ connector = "Some" /\ device
  /\ Len(channels) < maxc
  /\ data_tx' = Len(channels) + 1
  /\ channels' = Append(channels, NewChannel("caller"))
  /\ starting' = [pc |-> "setup", written |-> <<>>]
  /\ UNCHANGED <<museVars, device, characteristics, ble_streaming,
                 peripheralVars, pumps>>
  /\ UNCHANGED <<dsmVars, notified, restartMark, stale, delivered, inCycle,
                 arg, ret, last>>

\* setup_notifications: every data characteristic subscribed, the pump
\* spawned with a clone of the stored sender
start_Setup ==
  /\ starting.pc = "setup"
  /\ characteristics' =
       characteristics \cup SetupInserted(Len(ServiceCharacteristics))
  /\ subscribed' = subscribed \cup SetupSubscribed(Len(ServiceCharacteristics))
  /\ pumps' = Append(pumps, NewPump(data_tx))
  /\ starting' = [starting EXCEPT !.pc = "commands"]
  /\ UNCHANGED <<museVars, device, ble_streaming, data_tx, link, channels>>
  /\ UNCHANGED <<dsmVars, notified, restartMark, stale, delivered, inCycle,
                 arg, ret, last>>

\* the next configuration command is framed and written to the control
\* characteristic
start_Command ==
  /\ starting.pc = "commands"
  /\ Len(starting.written) < Len(StartCommands)
  /\ CanSendControl
  /\ starting' =
       [starting EXCEPT !.written =
          Append(@, ControlBuffer(
                      CommandBytes[StartCommands[Len(starting.written) + 1]]))]
  /\ UNCHANGED <<museVars, bleVars, peripheralVars, taskVars>>
  /\ UNCHANGED <<dsmVars, notified, restartMark, stale, delivered, inCycle,
                 arg, ret, last>>

\* the four commands are written: the gate is set, the call returns and the
\* caller spawns the sink task with the receiver
start_Finish ==
  /\ starting.pc = "commands"
  /\ Len(starting.written) = Len(StartCommands)
  /\ ble_streaming' = TRUE
  /\ channels' = [channels EXCEPT ![data_tx].rx = "task"]
  /\ streaming' = TRUE
  /\ starting' = [starting EXCEPT !.pc = "idle"]
  /\ last' = Result("start_streaming", TRUE, "")
  /\ restartMark' = IF ble_streaming THEN restartMark ELSE notified
  /\ stale' = IF ble_streaming THEN stale ELSE InSlates
  /\ UNCHANGED <<connector, connected, device_name, device_uuid, device,
                 characteristics, data_tx, peripheralVars, pumps>>
  /\ UNCHANGED <<dsmVars, notified, delivered, inCycle, arg, ret>>

(***************************************************************************)
(* The pump loop step by step under the gate's RwLock (ble.rs): the read   *)
(* guard taken at the head of the loop body, the sends of a batch one by   *)
(* one, the guard dropped at the end of the body.                          *)
(***************************************************************************)
\* the pump takes the next notification, acquires the read guard and reads
\* the gate; what it will send is settled here (the slate is the task's
\* own, so its writes are made at once)
PumpTake(p) ==
  /\ pumps[p].queue # <<>>
  /\ ~pumps[p].event.held
  /\ LET out == PumpIteration(ble_streaming, pumps[p].chunks,
                              Head(pumps[p].queue))
     IN pumps' = [pumps EXCEPT ![p].queue = Tail(@),
                               ![p].chunks = out.chunks,
                               ![p].event = [held |-> TRUE,
                                             pending |-> out.frames]]
  /\ UNCHANGED <<dsmVars, museVars, bleVars, peripheralVars, channels,
                 notified, restartMark, stale, delivered, inCycle, arg, ret,
                 starting, last>>

\* one tx.send of the batch
PumpSend(p) ==
  /\ pumps[p].event.held
  /\ pumps[p].event.pending # <<>>
  /\ channels' = Send(channels, pumps[p].tx, <<Head(pumps[p].event.pending)>>)
  /\ pumps' = [pumps EXCEPT ![p].event.pending = Tail(@)]
  /\ UNCHANGED <<dsmVars, museVars, bleVars, peripheralVars, notified,
                 restartMark, stale, delivered, inCycle, arg, ret, starting,
                 last>>

\* the end of the loop body: streaming_guard goes out of scope
PumpRelease(p) ==
  /\ pumps[p].event.held
  /\ pumps[p].event.pending = <<>>
  /\ pumps' = [pumps EXCEPT ![p].event = NoEvent]
  /\ UNCHANGED <<dsmVars, museVars, bleVars, peripheralVars, channels,
                 notified, restartMark, stale, delivered, inCycle, arg, ret,
                 starting, last>>

\* a write lock granted while read guards are held
WriteGranted_OverReaders == TRUE

\* streaming.write().await returns: no read guard is held
WriteGranted == \A p \in 1..Len(pumps) : ~pumps[p].event.held

\* stop_streaming, its write of the gate waiting for the lock
stop_Locked(unsubOk) == WriteGranted /\ stop_Ok(unsubOk)

(***************************************************************************)
(* Specifications.                                                         *)
(***************************************************************************)
Init ==
  /\ DsmNew
  /\ connector = None
  /\ connected = FALSE
  /\ device_name = None
  /\ device_uuid = None
  /\ streaming = FALSE
  /\ device = FALSE
  /\ characteristics = {}
  /\ ble_streaming = FALSE
  /\ data_tx = NoSender
  /\ link = FALSE
  /\ subscribed = {}
  /\ pumps = <<>>
  /\ channels = <<>>
  /\ notified = 0
  /\ restartMark = 0
  /\ stale = {}
  /\ delivered = NothingDelivered
  /\ inCycle = TRUE
  /\ arg = <<>>
  /\ ret = NoCall
  /\ starting = NoStart
  /\ last = [op |-> "new", ok |-> TRUE, why |-> ""]

\* the streaming system: the facade's calls, the transport's notifications
\* and the pump tasks
Next == NextControl(MaxChannels) \/ NextStream(MaxNotifications)
Spec == Init /\ [][Next]_vars

\* the streaming system through a single streaming session
NextSingle == NextControl(SingleChannels) \/ NextStream(SingleNotifications)
SpecSingle == Init /\ [][NextSingle]_vars

\* connecting, starting step by step and stopping, the facade's calls one at
\* a time, with the transport and the pumps running all along
NextStart ==
  \/ starting.pc = "idle" /\ connect_Ok
  \/ start_Begin(MaxChannels)
  \/ start_Setup
  \/ start_Command
  \/ start_Finish
  \/ \E unsubOk \in BOOLEAN : starting.pc = "idle" /\ stop_Ok(unsubOk)
  \/ DeliverChunk(MaxEarly)
  \/ PumpStep
SpecStart == Init /\ [][NextStart]_vars

\* one streaming session whose pump receives whole chunks and chunks cut
\* short, of any channel in any order
NextCut == DeliverChunk(MaxEarly) \/ DeliverCut(MaxEarly) \/ PumpStep
SpecCut == InitStreaming /\ [][NextCut]_vars

\* one streaming session whose pump receives chunks whole, cut short or
\* undecodable, until and after stop_streaming clears the gate
NextBatch ==
  \/ DeliverTrigger(MaxEarly)
  \/ PumpStep
  \/ \E unsubOk \in BOOLEAN : stop_Ok(unsubOk)
SpecBatch == InitStreaming /\ [][NextBatch]_vars

\* one streaming session, the pump's events taken apart, until and after
\* stop_streaming clears the gate
NextGate ==
  \/ DeliverTrigger(MaxEarly)
  \/ \E p \in 1..Len(pumps) : PumpTake(p)
  \/ \E p \in 1..Len(pumps) : PumpSend(p)
  \/ \E p \in 1..Len(pumps) : PumpRelease(p)
  \/ \E unsubOk \in BOOLEAN : stop_Locked(unsubOk)
SpecGate == InitStreaming /\ [][NextGate]_vars

\* one streaming session until it is stopped, the link taken down and the
\* tasks have returned
NextStop ==
  \/ DeliverChunk(MaxEarly)
  \/ PumpStep
  \/ SinkRecv
  \/ \E unsubOk \in BOOLEAN : stop_Ok(unsubOk)
  \/ disconnect_Ok
  \/ \E p \in 1..Len(pumps) : StreamClose(p)
  \/ \E p \in 1..Len(pumps) : PumpExit(p)
  \/ \E c \in 1..Len(channels) : SinkEnd(c)
SpecStop == InitStreaming /\ [][NextStop]_vars
\* the same with the scheduling of the runtime, a task that can take a step
\* takes it, and a transport that ends the streams of a link that is down
SpecStopFair ==
  /\ SpecStop
  /\ WF_vars(\E p \in 1..Len(pumps) : StreamClose(p))
  /\ WF_vars(PumpStep)
  /\ WF_vars(SinkRecv)
  /\ WF_vars(\E p \in 1..Len(pumps) : PumpExit(p))
  /\ WF_vars(\E c \in 1..Len(channels) : SinkEnd(c))

\* the codec functions applied to a byte string
InitCodec ==
  Streaming /\ arg \in CodecInputs /\ ret = NoCall /\ starting = NoStart
NextCodec ==
  \/ send_control_command
  \/ call_parse_eeg_data
  \/ call_parse_ppg_data
SpecCodec == InitCodec /\ [][NextCodec]_vars

\* one streaming session fed cycle by cycle, and its sink task
NextSink ==
  \/ DeliverInTurn
  \/ PumpStep
  \/ SinkRecv
  \/ SinkExit
SpecSink == InitStreaming /\ [][NextSink]_vars

\* one streaming session fed cycle by cycle or in any order
NextMixed ==
  \/ DeliverInCycle
  \/ DeliverChunk(MaxEarly)
  \/ PumpStep
SpecMixed == InitStreaming /\ [][NextMixed]_vars

\* one streaming session fed cycle by cycle
NextCycles == DeliverInCycle \/ PumpStep
SpecCycles == InitStreaming /\ [][NextCycles]_vars

\* one streaming session fed in any order, whose sink task may fail to start
NextFree == DeliverAny(MaxDelivered) \/ PumpStep \/ SinkExit
SpecFree == InitStreaming /\ [][NextFree]_vars

\* the session state machines alone: DeviceStateManager and the facade
NextSession == NextDSM \/ NextControl(MaxChannels)
SpecSession == Init /\ [][NextSession]_vars

(***************************************************************************)
(* Claims.                                                                 *)
(***************************************************************************)

\* C1: in DeviceStateManager streaming_state = Streaming implies
\* connection_state = Connected(_) in every reachable state, and a
\* set_disconnected call leaves {Disconnected, Stopped}, also when it was
\* called while Streaming.
C1_StreamingImpliesConnected ==
  /\ is_streaming_dsm => is_connected_dsm
  /\ dsm_last.op = "set_disconnected" =>
       connection_state = Disconnected /\ streaming_state = "Stopped"

\* set_disconnected has been called on a Streaming manager
C1_Witness ==
  /\ dsm_last.op = "set_disconnected"
  /\ dsm_last.pre.streaming = "Streaming"
  /\ dsm_last.pre.connection.tag = "Connected"

\* C2: the getters of MuseDevice never show is_streaming together with
\* ~is_connected, and after disconnect() returned Ok is_streaming is false.
C2_NeverStreamingDisconnected ==
  /\ ~(is_streaming /\ ~is_connected)
  /\ last.op = "disconnect" /\ last.ok => ~is_streaming

SinkTasks(chans) == {c \in 1..Len(chans) : chans[c].rx = "task"}

\* C3: a start on a session that is Connected and already Streaming returns
\* Err and starts nothing: set_streaming_started returns Err, and
\* MuseDevice::start_streaming returns Err and spawns no pump and no sink
\* task.
C3_StartWhileStreamingFails ==
  [][/\ set_streaming_started /\ is_connected_dsm /\ is_streaming_dsm
          => ~dsm_last'.ok
     /\ MuseDevice_start_streaming(MaxChannels) /\ device /\ ble_streaming
          => /\ ~last'.ok
             /\ pumps' = pumps
             /\ SinkTasks(channels') = SinkTasks(channels)]_vars

\* C4: a start on a Disconnected session returns Err and changes nothing:
\* set_streaming_started leaves connection_state and streaming_state, and
\* BleConnector::start_streaming with no device stores no sender, subscribes
\* to nothing, spawns no pump and leaves the gate.
C4_StartWhileDisconnectedFails ==
  [][/\ set_streaming_started /\ ~is_connected_dsm
          => /\ ~dsm_last'.ok
             /\ UNCHANGED <<connection_state, streaming_state>>
     /\ MuseDevice_start_streaming(MaxChannels) /\ connector = "Some" /\ ~device
          => /\ ~last'.ok
             /\ UNCHANGED <<data_tx, subscribed, pumps, ble_streaming>>]_vars

\* both starts have been refused: the manager's while Disconnected, the
\* connector's while it held no device
C4_Witness ==
  /\ dsm_last.op = "set_streaming_started" /\ ~dsm_last.ok
  /\ dsm_last.pre.connection = Disconnected
  /\ last.op = "start_streaming" /\ ~last.ok /\ last.why = "not connected"
  /\ connector = "Some" /\ ~device

\* C5: stop_streaming called in any reachable state, no transport call
\* failing, returns Ok and leaves the gate false and streaming false.
C5_StopAlwaysSucceeds ==
  last.op = "stop_streaming" /\ last.why # "transport" =>
    last.ok /\ ~ble_streaming /\ ~is_streaming

\* C6: disconnect called in any reachable state, no transport call failing,
\* returns Ok and leaves no device, is_connected false and the gate false.
C6_DisconnectAlwaysSucceeds ==
  last.op = "disconnect" /\ last.why # "transport" =>
    last.ok /\ ~device /\ ~is_connected /\ ~ble_streaming

\* pump p takes a notification from its stream in this step
Consumes(p) ==
  /\ p <= Len(pumps')
  /\ pumps[p].queue # <<>>
  /\ pumps'[p].queue = Tail(pumps[p].queue)

\* C7: a pump that takes a notification while the gate is false sends no
\* frame and leaves its slate as it was.
C7_ClosedGateDiscards ==
  [][\A p \in 1..Len(pumps) :
       Consumes(p) /\ ~ble_streaming =>
         /\ pumps'[p].chunks = pumps[p].chunks
         /\ channels' = channels]_vars

\* the pump wrote the first notification (EEG_TP9) to its slate under a true
\* gate and has taken the second one under a false gate: had the gate been
\* true, the second one would have overwritten the slot, written a PPG slot
\* or emitted frames
C7_Witness ==
  /\ Len(pumps) = 1 /\ Len(channels) = 1
  /\ ~ble_streaming
  /\ notified = 2
  /\ pumps[1].queue = <<>>
  /\ pumps[1].chunks.eeg_chunks[1] = SubSeq(FullPayload(1), 3, 14)
  /\ pumps[1].chunks.ppg_chunks = ZeroChunks.ppg_chunks
  /\ channels[1].rx = "task" /\ channels[1].buf = <<>>

\* C8: at most one pump forwards frames: no notification yields frames in
\* the channels of two pumps.
C8_OneForwardingPump ==
  \A c1, c2 \in 1..Len(channels) :
    c1 # c2 =>
      \A i1 \in 1..Len(channels[c1].buf), i2 \in 1..Len(channels[c2].buf) :
        ~(/\ Trigger(channels[c1].buf[i1]) # 0
          /\ Trigger(channels[c1].buf[i1]) = Trigger(channels[c2].buf[i2]))

\* C9: a frame sent after a restart (its trigger arrived after streaming
\* was started again from a stopped gate) holds no sample of a chunk that
\* was in a slate when streaming was started again: the session starts
\* from a zeroed slate.
C9_FreshSlateAfterRestart ==
  \A c \in 1..Len(channels) :
    \A i \in 1..Len(channels[c].buf) :
      LET frame == channels[c].buf[i]
      IN Trigger(frame) > restartMark =>
           \A ch \in 1..Len(frame.sample) :
             Origin(frame.type, frame.sample[ch]) \notin stale

\* C10: a start_streaming that fails on a transport call leaves the gate,
\* MuseDevice.streaming, the stored sender, the subscriptions and the pumps
\* as they were.
C10_FailedStartLeavesNoTrace ==
  [][MuseDevice_start_streaming(MaxChannels) /\ ~last'.ok
       /\ last'.why = "transport"
       => UNCHANGED <<ble_streaming, streaming, data_tx, subscribed, pumps>>]_vars

\* sample i of the chunk a 20-byte payload carries: for EEG the byte after
\* the 2-byte header, for PPG the big-endian value of the i-th 3 bytes
ChunkSample(type, payload, i) ==
  IF type = "Eeg" THEN payload[2 + i]
  ELSE 65536 * payload[3 * i] + 256 * payload[3 * i + 1] + payload[3 * i + 2]
ChunkOf(type, payload, size) == [i \in 1..size |-> ChunkSample(type, payload, i)]

\* the batch of cycle n: frame i holds, in channel order, sample i of the
\* chunk each channel delivered in cycle n
ExpectedBatch(type, family, size, n) ==
  [i \in 1..size |->
     [type |-> type,
      sample |-> [c \in 1..Len(family) |->
                    ChunkSample(type, delivered[family[c]][n], i)]]]

\* notifications of uuid the pump has taken from its stream
Taken(p, uuid) ==
  Count(uuid) - Cardinality({k \in 1..Len(pumps[p].queue) :
                               pumps[p].queue[k].uuid = uuid})
IsEeg(frame) == frame.type = "Eeg"
IsPpg(frame) == frame.type = "Ppg"
\* the frames of a family in a channel, in the order they were sent
SentOf(type, c) ==
  IF type = "Eeg" THEN SelectSeq(channels[c].buf, IsEeg)
  ELSE SelectSeq(channels[c].buf, IsPpg)

\* the pump emitted one batch per completed cycle of the family, each of
\* size frames in sample order, and its slate holds the chunks of the cycle
\* under way and zeros elsewhere
CyclesEmitted(type, family, size, slate) ==
  LET n == Taken(1, LastOf(family))
      sent == SentOf(type, 1)
  IN /\ Len(sent) = n * size
     /\ \A j \in 1..n :
          SubSeq(sent, (j - 1) * size + 1, j * size)
            = ExpectedBatch(type, family, size, j)
     /\ \A c \in 1..Len(family) :
          slate[c] = IF Taken(1, family[c]) = n + 1
                       THEN ChunkOf(type, delivered[family[c]][n + 1], size)
                       ELSE [i \in 1..size |-> 0]

\* C11: with the gate true, a cycle of full chunks written on a zeroed
\* slate, the last channel last, emits exactly 12 EEG (6 PPG) frames in
\* sample order, frame i holding sample i of every channel's chunk in
\* channel order, and leaves the family's slate all zero.
C11_CycleEmitsChunkLengthFrames ==
  /\ CyclesEmitted("Eeg", eeg_uuids, 12, pumps[1].chunks.eeg_chunks)
  /\ CyclesEmitted("Ppg", ppg_uuids, 6, pumps[1].chunks.ppg_chunks)

\* an EEG and a PPG cycle have been emitted and the slate reads zero
C11_Witness ==
  /\ ble_streaming
  /\ Len(SentOf("Eeg", 1)) = 12 /\ Len(SentOf("Ppg", 1)) = 6
  /\ pumps[1].queue = <<>>
  /\ pumps[1].chunks = ZeroChunks

\* C12 (as claimed): whatever the order of the channels' notifications,
\* the j-th batch emitted for a family holds, for every channel that has
\* delivered j full chunks, the j-th chunk of that channel.
C12_ArbitraryInterleaving ==
  \A j \in 1..MaxDelivered :
    LET sent == SentOf("Ppg", 1)
    IN /\ Len(sent) >= 6 * j
       /\ \A c \in 1..3 :
            /\ Count(ppg_uuids[c]) >= j
            /\ \A k \in 1..j : Len(delivered[ppg_uuids[c]][k]) = 20
       => SubSeq(sent, 6 * (j - 1) + 1, 6 * j)
            = ExpectedBatch("Ppg", ppg_uuids, 6, j)

\* C12 (amended): when every channel sends one full chunk per cycle and
\* the family's last channel closes the cycle, the other channels in any
\* order and the two families interleaved in any way, the batch emitted
\* for cycle n holds every channel's chunk of cycle n.
C12_InterleavingWithinCycle ==
  LET eeg == SentOf("Eeg", 1)
      ppg == SentOf("Ppg", 1)
  IN inCycle /\ channels[1].rx = "task"
     => /\ \A n \in 1..Taken(1, LastOf(eeg_uuids)) :
             /\ Len(eeg) >= 12 * n
             /\ \A i \in 1..12, c \in 1..5 :
                  eeg[12 * (n - 1) + i].sample[c]
                    = delivered[eeg_uuids[c]][n][2 + i]
        /\ \A n \in 1..Taken(1, LastOf(ppg_uuids)) :
             /\ Len(ppg) >= 6 * n
             /\ \A i \in 1..6, c \in 1..3 :
                  ppg[6 * (n - 1) + i].sample[c]
                    = ChunkSample("Ppg", delivered[ppg_uuids[c]][n], i)

\* a second EEG cycle, of another content than the first, was emitted from
\* chunks that all came in their place
C12_Witness ==
  /\ inCycle /\ channels[1].rx = "task"
  /\ Taken(1, LastOf(eeg_uuids)) = 2
  /\ delivered["EEG_TP9"][1] # delivered["EEG_TP9"][2]
  /\ Len(SentOf("Eeg", 1)) = 24

\* the batches of cycles j and j + 1 of a family are equal whenever every
\* channel delivered the same chunk in both cycles
SameBatchTwice(type, family, size) ==
  \A j \in 1..MaxCycles :
    LET sent == SentOf(type, 1)
    IN /\ Taken(1, LastOf(family)) >= j + 1
       /\ \A c \in 1..Len(family) :
            delivered[family[c]][j] = delivered[family[c]][j + 1]
       => /\ Len(sent) >= (j + 1) * size
          /\ SubSeq(sent, (j - 1) * size + 1, j * size)
               = SubSeq(sent, j * size + 1, (j + 1) * size)

\* C13: feeding the same complete set of chunks, the last channel last, for
\* two consecutive cycles produces two identical batches of frames.
C13_RepeatedCycleSameBatch ==
  /\ SameBatchTwice("Eeg", eeg_uuids, 12)
  /\ SameBatchTwice("Ppg", ppg_uuids, 6)

\* the same three PPG chunks were fed in two consecutive cycles and both
\* batches were emitted
C13_Witness ==
  /\ Taken(1, LastOf(ppg_uuids)) = 2
  /\ \A c \in 1..3 : delivered[ppg_uuids[c]][1] = delivered[ppg_uuids[c]][2]
  /\ Len(SentOf("Ppg", 1)) = 12
  /\ SentOf("Ppg", 1)[1].sample # <<0, 0, 0>>

\* the frames sent through channel c in the order the sink task takes them:
\* those it has received, then those waiting
Stream(c) == channels[c].pushed \o channels[c].buf
IsPrefix(s, t) == Len(s) <= Len(t) /\ SubSeq(t, 1, Len(s)) = s
\* the frames of a family that went through channel 1 are the batches of
\* the cycles the pump completed, cycle after cycle, each in sample order
BatchesInOrder(type, family, size) ==
  LET sent == IF type = "Eeg" THEN SelectSeq(Stream(1), IsEeg)
              ELSE SelectSeq(Stream(1), IsPpg)
      n == Taken(1, LastOf(family))
  IN /\ Len(sent) = n * size
     /\ \A j \in 1..n :
          SubSeq(sent, (j - 1) * size + 1, j * size)
            = ExpectedBatch(type, family, size, j)
\* a step adds frames at the end of what the channel carried, and what the
\* sink task received at the end of what it had received
GrowsAtTheEnd ==
  /\ IsPrefix(Stream(1), Stream(1)')
  /\ IsPrefix(channels[1].pushed, channels'[1].pushed)

\* C14: with a single pump and the sink task receiving, the frames the sink
\* task receives are the frames the pump emitted, each once and in emission
\* order: within a cycle in increasing sample index, across cycles in the
\* order the cycles completed.
C14_SinkReceivesInEmissionOrder ==
  /\ [](channels[1].rx = "task"
         => /\ BatchesInOrder("Eeg", eeg_uuids, 12)
            /\ BatchesInOrder("Ppg", ppg_uuids, 6))
  /\ [][channels[1].rx = "task" /\ channels'[1].rx = "task"
         => GrowsAtTheEnd]_vars

\* the sink task received an EEG and a PPG batch and nothing is waiting
C14_Witness ==
  /\ Len(pumps) = 1
  /\ channels[1].rx = "task"
  /\ Len(channels[1].pushed) = 18
  /\ channels[1].buf = <<>>
  /\ Taken(1, LastOf(eeg_uuids)) = 1 /\ Taken(1, LastOf(ppg_uuids)) = 1

\* the decoder's result for a notification of a data characteristic
Decoded(notification) ==
  IF notification.uuid \in Range(eeg_uuids)
    THEN parse_eeg_data(notification.value)
    ELSE parse_ppg_data(notification.value)

\* C15: an EEG or PPG notification with a payload shorter than 2 bytes
\* fails to decode, and the pump leaves the slate unchanged and emits no
\* frame for it, also when its channel is the last of its family.
C15_ShortPayloadSkipped ==
  [][\A p \in 1..Len(pumps) :
       /\ Pump(p)
       /\ Head(pumps[p].queue).uuid \in DataUuids
       /\ Len(Head(pumps[p].queue).value) < 2
       => /\ ~Decoded(Head(pumps[p].queue)).ok
          /\ pumps'[p].chunks = pumps[p].chunks
          /\ channels' = channels]_vars

\* the pump has taken a short payload of the last PPG channel while its
\* slate held a chunk and the sink task was receiving
C15_Witness ==
  /\ ble_streaming
  /\ channels[1].rx = "task"
  /\ Count("PPG_RED") = 1 /\ Taken(1, "PPG_RED") = 1
  /\ delivered["PPG_RED"][1] \in ShortPayloads
  /\ Taken(1, "PPG_AMBIENT") = 1
  /\ Len(delivered["PPG_AMBIENT"][1]) = 20
  /\ pumps[1].chunks.ppg_chunks[1] = ChunkOf("Ppg", delivered["PPG_AMBIENT"][1], 6)
  /\ pumps[1].chunks.ppg_chunks[1][1] # 0
  /\ channels[1].buf = <<>>

\* pump p has met a failure: a payload that did not decode, or a channel
\* whose receiver is gone
Failed(p) ==
  \/ channels[pumps[p].tx].rx = "dropped"
  \/ \E uuid \in DataUuids :
       \E k \in 1..Taken(p, uuid) : Len(delivered[uuid][k]) < 2
\* the full chunks of uuid pump p has taken, and the latest of them (zeros
\* when there is none)
FullTaken(p, uuid) == {k \in 1..Taken(p, uuid) : Len(delivered[uuid][k]) = 20}
LatestFull(p, type, uuid, size) ==
  IF FullTaken(p, uuid) = {} THEN [i \in 1..size |-> 0]
  ELSE ChunkOf(type,
               delivered[uuid][CHOOSE k \in FullTaken(p, uuid) :
                                 \A m \in FullTaken(p, uuid) : m <= k],
               size)
\* pump p takes the first full chunk of the family's last channel: it
\* zeroes the slate and sends, to a receiver that is there, the batch made
\* of that chunk and the latest full chunk of every other channel
ClosesFirstCycle(p, type, family, size, slateAfter) ==
  LET head == Head(pumps[p].queue)
      tx == pumps[p].tx
  IN /\ head.uuid = LastOf(family)
     /\ Len(head.value) = 20
     /\ FullTaken(p, LastOf(family)) = {}
     => /\ slateAfter = [c \in 1..Len(family) |-> [i \in 1..size |-> 0]]
        /\ IF channels[tx].rx = "task"
             THEN channels'[tx].buf = channels[tx].buf \o
                    [i \in 1..size |->
                       [type |-> type,
                        sample |-> [c \in 1..Len(family) |->
                           IF c = Len(family)
                             THEN ChunkSample(type, head.value, i)
                             ELSE LatestFull(p, type, family[c], size)[i]]]]
             ELSE channels' = channels

\* C16: neither a payload that fails to decode nor a closed receiver ends
\* the pump: it goes on taking notifications, and the next complete cycle
\* is decoded, reassembled and sent.
C16_FailuresDoNotStopThePump ==
  /\ [](\A p \in 1..Len(pumps) :
          Failed(p) /\ pumps[p].queue # <<>> => ENABLED Pump(p))
  /\ [][\A p \in 1..Len(pumps) :
          Pump(p) /\ Failed(p)
          => /\ ClosesFirstCycle(p, "Eeg", eeg_uuids, 12,
                                  pumps'[p].chunks.eeg_chunks)
             /\ ClosesFirstCycle(p, "Ppg", ppg_uuids, 6,
                                  pumps'[p].chunks.ppg_chunks)]_vars

\* after a short payload of the last PPG channel the pump has taken a
\* complete PPG cycle and sent its batch
C16_Witness ==
  /\ channels[1].rx = "task"
  /\ Count("PPG_RED") = 2 /\ Taken(1, "PPG_RED") = 2
  /\ Len(delivered["PPG_RED"][1]) < 2
  /\ Len(delivered["PPG_RED"][2]) = 20
  /\ Len(channels[1].buf) = 6
  /\ \A c \in 1..2 : /\ Count(ppg_uuids[c]) = 1
                       /\ Len(delivered[ppg_uuids[c]][1]) = 20
  /\ \A i \in 1..6 :
       channels[1].buf[i].sample
         = <<ChunkSample("Ppg", delivered["PPG_AMBIENT"][1], i),
             ChunkSample("Ppg", delivered["PPG_INFRARED"][1], i),
             ChunkSample("Ppg", delivered["PPG_RED"][2], i)>>

\* C17: a notification whose identity is none of the five EEG and three PPG
\* identities is ignored whatever its payload: the pump changes neither
\* slate, emits no frame and goes on.
C17_UnmappedIdentityIgnored ==
  /\ [][\A p \in 1..Len(pumps) :
          Pump(p) /\ Head(pumps[p].queue).uuid \notin DataUuids
          => /\ pumps'[p].chunks = pumps[p].chunks
             /\ channels' = channels
             /\ pumps'[p].queue = Tail(pumps[p].queue)]_vars
  /\ [](\A p \in 1..Len(pumps) :
          pumps[p].queue # <<>> /\ Head(pumps[p].queue).uuid \notin DataUuids
          => ENABLED Pump(p))

\* the pump has taken a full and a short notification of the control
\* characteristic while its slate held a PPG chunk
C17_Witness ==
  /\ ble_streaming
  /\ channels[1].rx = "task"
  /\ Count(CONTROL_UUID) = 2 /\ Taken(1, CONTROL_UUID) = 2
  /\ \E k \in 1..2 : Len(delivered[CONTROL_UUID][k]) = 20
  /\ \E k \in 1..2 : Len(delivered[CONTROL_UUID][k]) < 2
  /\ Taken(1, "PPG_AMBIENT") = 1
  /\ Len(delivered["PPG_AMBIENT"][1]) = 20
  /\ pumps[1].chunks.ppg_chunks[1] = ChunkOf("Ppg", delivered["PPG_AMBIENT"][1], 6)
  /\ channels[1].buf = <<>>

\* C18: for a command of length + 2 <= 255 the control frame is the byte
\* length + 1, the command unchanged and '\n'; "h" gives [2, 0x68, 0x0A].
C18_ControlFrame ==
  ret.op = "send_control_command"
  => /\ Len(arg) + 2 <= 255
        => /\ ret.result.ok
           /\ Len(ret.result.value) = Len(arg) + 2
           /\ ret.result.value[1] = Len(arg) + 1
           /\ \A i \in 1..Len(arg) : ret.result.value[i + 1] = arg[i]
           /\ ret.result.value[Len(arg) + 2] = 10
     /\ arg = <<104>> => ret.result.value = <<2, 104, 10>>

\* "h" was framed
C18_Witness ==
  /\ ret.op = "send_control_command"
  /\ arg = <<104>>
  /\ ret.result.value = <<2, 104, 10>>

\* C19: encoding a command of length + 2 > 255 fails, and no frame is
\* produced whose length byte is a truncated value.
C19_LongCommandFails ==
  ret.op = "send_control_command"
  => /\ Len(arg) + 2 > 255 => ~ret.result.ok
     /\ ret.result.ok => ret.result.value[1] = Len(ret.result.value) - 1

\* C20: parse_eeg_data on a payload of n >= 2 bytes yields the n - 2 bytes
\* after the 2-byte header, unscaled and in order: 12 samples, the bytes
\* 2..13, for a payload of 14 bytes.
C20_EegSamplesAreBytesAfterHeader ==
  ret.op = "parse_eeg_data" /\ Len(arg) >= 2
  => /\ ret.result.ok
     /\ Len(ret.result.value) = Len(arg) - 2
     /\ \A i \in 1..(Len(arg) - 2) : ret.result.value[i] = arg[i + 2]
     /\ Len(arg) = 14 => Len(ret.result.value) = 12

\* a 14-byte payload was decoded into samples that differ from each other
C20_Witness ==
  /\ ret.op = "parse_eeg_data"
  /\ Len(arg) = 14
  /\ ret.result.ok
  /\ Len(ret.result.value) = 12
  /\ ret.result.value[1] # ret.result.value[12]
  /\ ret.result.value[1] # arg[1]

\* C21: parse_ppg_data on a payload of n >= 2 bytes yields floor((n - 2) / 3)
\* samples, the j-th the unsigned big-endian value b0 * 65536 + b1 * 256 + b2
\* of the j-th group of 3 bytes after the header; 1 or 2 bytes left over at
\* the end are dropped without error.
C21_PpgSamplesAreBigEndianGroups ==
  ret.op = "parse_ppg_data" /\ Len(arg) >= 2
  => /\ ret.result.ok
     /\ Len(ret.result.value) = (Len(arg) - 2) \div 3
     /\ \A j \in 1..((Len(arg) - 2) \div 3) :
          ret.result.value[j] = arg[3 * j] * 65536 + arg[3 * j + 1] * 256
                                  + arg[3 * j + 2]

\* a payload with a byte left over after its last whole group was decoded
C21_Witness ==
  /\ ret.op = "parse_ppg_data"
  /\ Len(arg) >= 14
  /\ (Len(arg) - 2) % 3 = 1
  /\ ret.result.ok
  /\ Len(ret.result.value) = (Len(arg) - 2) \div 3
  /\ ret.result.value[1] # ret.result.value[2]
  /\ arg[Len(arg)] # 0

\* C23: when its notification stream has ended the pump terminates, and it
\* terminates without a flush: no frame is sent for chunks its slate holds
\* of a cycle whose last channel never came.
C23_StreamEndStopsPumpWithoutFlush ==
  /\ [](\A p \in 1..Len(pumps) :
          pumps[p].state = "closed" /\ pumps[p].queue = <<>>
          => ENABLED PumpExit(p))
  /\ [][\A p \in 1..Len(pumps) :
          PumpExit(p) => /\ pumps'[p].state = "done"
                         /\ channels' = channels]_vars

\* the pump has returned with a PPG chunk in its slate, no chunk of the last
\* PPG channel having come, and its channel carried no frame
C23_Witness ==
  /\ pumps[1].state = "done"
  /\ Count("PPG_RED") = 0
  /\ pumps[1].chunks.ppg_chunks[1][1] # 0
  /\ channels[1].rx = "task"
  /\ Stream(1) = <<>>

\* C22: after stop_streaming has completed, the sink task started by
\* start_streaming eventually terminates, its channel closing once every
\* sender, the pump's included, is dropped.
C22_SinkTaskEndsAfterStop ==
  (last.op = "stop_streaming" /\ last.ok) ~> (channels[1].rx # "task")

\* the frames of "h", "p50", "s" and "d"
StartFrames ==
  << <<2, 104, 10>>, <<4, 112, 53, 48, 10>>, <<2, 115, 10>>, <<2, 100, 10>> >>
\* the pump spawned by the start_streaming call under way
NewestPump == Len(pumps)
\* the frames are written in the order h, p50, s, d
C24_InOrder == [](IsPrefix(starting.written, StartFrames))
\* the commands are sent with every data characteristic subscribed
C24_AfterSubscriptions ==
  [](starting.pc = "commands" => DataUuids \subseteq subscribed)
\* an iteration the new pump runs while the commands are sent decodes
\* nothing: the slate and the channels stay as they were
C24_NothingDecodedEarly ==
  [][starting.pc = "commands" /\ Pump(NewestPump)
       => /\ pumps'[NewestPump].chunks = pumps[NewestPump].chunks
          /\ channels' = channels]_vars
\* C24: start_streaming frames and sends the commands "h", "p50", "s", "d"
\* in exactly that order after the notification subscriptions are made, and
\* the pump it spawned decodes no notification before the last of the four
\* commands has been sent
C24_CommandsBeforeDecoding ==
  /\ C24_InOrder
  /\ C24_AfterSubscriptions
  /\ C24_NothingDecodedEarly

\* the family's slots in a slate, its chunk length and its frame type
SlotsOf(chunks, family) ==
  IF family = eeg_uuids THEN chunks.eeg_chunks ELSE chunks.ppg_chunks
ChunkSizeOf(family) ==
  IF family = eeg_uuids THEN EEG_CHUNK_SIZE ELSE PPG_CHUNK_SIZE
TypeOf(family) == IF family = eeg_uuids THEN "Eeg" ELSE "Ppg"
\* a data notification that decodes to fewer values than its family's chunk
\* length
DecodesShort(notification) ==
  /\ notification.uuid \in DataUuids
  /\ Decoded(notification).ok
  /\ Len(Decoded(notification).value)
       < ChunkSizeOf(FamilyOf(notification.uuid))
\* C25: a chunk that decodes to fewer values than its family's chunk length
\* (12 for EEG, 6 for PPG) writes nothing: on a channel that is not the
\* family's last the slate and the channel stay as they were; on the last
\* channel the batch is sent all the same, made of the slots as they were
\* before the notification (the last channel's being zero), and the
\* family's slots are zeroed.
C25_ShortChunkWritesNothing ==
  [][\A p \in 1..Len(pumps) :
       /\ Pump(p)
       /\ ble_streaming
       /\ channels[pumps[p].tx].rx = "task"
       /\ DecodesShort(Head(pumps[p].queue))
       => LET family == FamilyOf(Head(pumps[p].queue).uuid)
              before == SlotsOf(pumps[p].chunks, family)
              batch == Frames(TypeOf(family), before, ChunkSizeOf(family))
          IN IF Head(pumps[p].queue).uuid = LastOf(family)
               THEN /\ channels'[pumps[p].tx].buf
                         = channels[pumps[p].tx].buf \o batch
                    /\ \A i \in 1..Len(batch) :
                         batch[i].sample[Len(family)] = 0
                    /\ SlotsOf(pumps'[p].chunks, family)
                         = SlotsOf(ZeroChunks, family)
               ELSE /\ pumps'[p].chunks = pumps[p].chunks
                    /\ channels' = channels]_vars

\* the pump has taken a whole PPG_INFRARED chunk, then one cut to 3 samples,
\* then a PPG_RED chunk cut to 5 samples: the batch it sent holds the whole
\* chunk's samples for PPG_INFRARED and zero for PPG_RED
C25_Witness ==
  /\ ble_streaming
  /\ Count("PPG_INFRARED") = 2 /\ Taken(1, "PPG_INFRARED") = 2
  /\ Len(delivered["PPG_INFRARED"][1]) = 20
  /\ Len(delivered["PPG_INFRARED"][2]) = 13
  /\ Count("PPG_RED") = 1 /\ Taken(1, "PPG_RED") = 1
  /\ Len(delivered["PPG_RED"][1]) = 19
  /\ Len(channels[1].buf) = PPG_CHUNK_SIZE
  /\ \A i \in 1..PPG_CHUNK_SIZE :
       /\ channels[1].buf[i].sample[2]
            = ChunkOf("Ppg", delivered["PPG_INFRARED"][1], PPG_CHUNK_SIZE)[i]
       /\ channels[1].buf[i].sample[2] # 0
       /\ channels[1].buf[i].sample[3] = 0

\* how many frames of a type were sent into channel c
SentCount(type, c) ==
  LET OfType(frame) == frame.type = type
  IN Len(SelectSeq(Stream(c), OfType))
\* the notifications of uuid that pump p has taken and decoded
DecodedTaken(p, uuid) ==
  {k \in 1..Taken(p, uuid) :
     Decoded([uuid |-> uuid, value |-> delivered[uuid][k]]).ok}
\* pump p handles, under a true gate, a notification of the family's last
\* channel that decodes
TakesLast(p, family) ==
  /\ Pump(p)
  /\ ble_streaming
  /\ Head(pumps[p].queue).uuid = LastOf(family)
  /\ Decoded(Head(pumps[p].queue)).ok
\* every step adds to the frames of the family's type one whole batch when
\* it is such a notification, and none otherwise
WholeBatches(family) ==
  SentCount(TypeOf(family), 1)' - SentCount(TypeOf(family), 1)
    = IF TakesLast(1, family) THEN ChunkSizeOf(family) ELSE 0
\* C26: frames are sent only in whole batches triggered by the last
\* channels: the EEG frames sent are 12 times the EEG_AUX notifications that
\* decoded and were handled under a true gate, the PPG frames 6 times such
\* PPG_RED notifications, and a notification of another channel sends no
\* frame. While the gate has been true all along these are the decoded
\* notifications the pump has taken; each later step adds a batch or
\* nothing.
C26_FramesInWholeBatches ==
  /\ [](ble_streaming
          => /\ SentCount("Eeg", 1)
                  = EEG_CHUNK_SIZE * Cardinality(DecodedTaken(1, "EEG_AUX"))
             /\ SentCount("Ppg", 1)
                  = PPG_CHUNK_SIZE * Cardinality(DecodedTaken(1, "PPG_RED")))
  /\ [][WholeBatches(eeg_uuids) /\ WholeBatches(ppg_uuids)]_vars
  /\ [][\A p \in 1..Len(pumps) :
          /\ Pump(p)
          /\ Head(pumps[p].queue).uuid \notin {"EEG_AUX", "PPG_RED"}
          => channels' = channels]_vars

\* the pump handled a whole EEG_AUX chunk and a PPG_RED chunk cut short
\* under a true gate and an EEG_AUX chunk after the gate was cleared: 12 EEG
\* and 6 PPG frames were sent
C26_Witness ==
  /\ ~ble_streaming
  /\ Count("EEG_AUX") = 2 /\ Taken(1, "EEG_AUX") = 2
  /\ Len(delivered["EEG_AUX"][1]) = 20 /\ Len(delivered["EEG_AUX"][2]) = 20
  /\ Count("PPG_RED") = 1 /\ Taken(1, "PPG_RED") = 1
  /\ Len(delivered["PPG_RED"][1]) = 13
  /\ SentCount("Eeg", 1) = EEG_CHUNK_SIZE
  /\ SentCount("Ppg", 1) = PPG_CHUNK_SIZE

\* pump p is in the middle of an event
MidEvent(p) == pumps[p].event.held
\* C27: a flip of the gate never splits a batch. The pump holds the gate's
\* read guard from its gate check to the end of the event, so the write of
\* stop_streaming completes only while no pump is in the middle of an
\* event; an event that passed the gate check can send its whole batch and
\* sends it under a true gate; no frame is sent by an event that checked
\* the gate after the flip, so with the gate cleared and no event under way
\* the frames sent are whole batches.
C27_FlipNeverSplitsBatch ==
  /\ [][ble_streaming' # ble_streaming
          => \A p \in 1..Len(pumps) : ~MidEvent(p)]_vars
  /\ [](\A p \in 1..Len(pumps) :
          MidEvent(p) /\ pumps[p].event.pending # <<>>
            => ble_streaming /\ ENABLED PumpSend(p))
  /\ [][\A p \in 1..Len(pumps) : PumpSend(p) => ble_streaming]_vars
  /\ [](~ble_streaming
          => /\ SentCount("Eeg", 1) % EEG_CHUNK_SIZE = 0
             /\ SentCount("Ppg", 1) % PPG_CHUNK_SIZE = 0)

\* the gate was cleared with a second EEG_AUX chunk waiting in the pump's
\* stream: the first was sent as one whole batch, the second, taken after
\* the flip, sent nothing
C27_Witness ==
  /\ ~ble_streaming
  /\ Count("EEG_AUX") = 2 /\ Taken(1, "EEG_AUX") = 2
  /\ Len(delivered["EEG_AUX"][1]) = 20 /\ Len(delivered["EEG_AUX"][2]) = 20
  /\ ~MidEvent(1)
  /\ SentCount("Eeg", 1) = EEG_CHUNK_SIZE

====
